---- MODULE Spec2Model ----
(***************************************************************************)
(* A model of MMapAllocator (src/src/lib.rs): an allocator whose six       *)
(* operations delegate to the operating system's mmap and munmap.          *)
(*                                                                         *)
(* The address space is a row of pages 1..NumPages of PageSize bytes each  *)
(* (page 0 holds the null address and is never mapped).  The state is the  *)
(* set of mapped pages, the contents of memory, the handles callers hold   *)
(* together with the layout each was last returned for, and a record of    *)
(* the last operation: its arguments, its outcome and the OS calls it      *)
(* made.                                                                   *)
(*                                                                         *)
(* Spec is one caller at a time, each operation one step.  SpecConc is     *)
(* several threads, each on its own block, the OS calls of one thread      *)
(* interleaved with those of the others: there the threads hold the        *)
(* blocks, and a relocating grow is three steps (mmap, copy, munmap).      *)
(***************************************************************************)
EXTENDS Integers, Sequences, FiniteSets, TLC

VARIABLES mapped, mem, handles, last, threads

vars == <<mapped, mem, handles, last, threads>>

(***************************************************************************)
(* Sizes of the model.                                                     *)
(***************************************************************************)
PageSize == 2
NumPages == 3
MaxPages == 2
MaxHandles == 1
IsizeMax == 15

Pages == 1 .. NumPages
Addrs == PageSize .. ((NumPages + 1) * PageSize - 1)
Bytes == {0, 42}
Aligns == {1, PageSize, 2 * PageSize}
MAP_FAILED == -1

Max(a, b) == IF a >= b THEN a ELSE b

\* Layout::from_size_align: the size rounded up to the alignment must not
\* exceed isize::MAX.
LayoutValid(size, align) == size + (align - 1) <= IsizeMax

\* The layouts a caller can build: small sizes, and the largest size there is.
Sizes == 0 .. (MaxPages * PageSize)
Layouts == {l \in [size : Sizes \cup {IsizeMax}, align : Aligns] :
              LayoutValid(l.size, l.align)}

(***************************************************************************)
(* The operating system.                                                   *)
(***************************************************************************)
\* The pages that hold some byte of [addr, addr + len).
PagesOf(addr, len) == (addr \div PageSize) .. ((addr + len - 1) \div PageSize)

\* The page of an address.
PageOf(a) == a \div PageSize

\* mmap(NULL, len, PROT_READ | PROT_WRITE, MAP_PRIVATE | MAP_ANON, -1, 0).
\* `place` is the OS's choice: MAP_FAILED, or the page-aligned address it would
\* put the mapping at.  A length of 0 is EINVAL; a placement that does not fit
\* in free address space is ENOMEM.  The pages of a new mapping read zero.
mmap(os, len, place) ==
    LET n == (len + PageSize - 1) \div PageSize
        ps == PageOf(place) .. (PageOf(place) + n - 1)
    IN  IF \/ len = 0
           \/ place = MAP_FAILED
           \/ \E p \in ps : p * PageSize \notin DOMAIN os.mem
           \/ ps \cap os.mapped # {}
        THEN [ret |-> MAP_FAILED, os |-> os]
        ELSE [ret |-> place,
              os  |-> [mapped |-> os.mapped \cup ps,
                       mem    |-> [a \in DOMAIN os.mem |->
                                     IF PageOf(a) \in ps THEN 0 ELSE os.mem[a]]]]

\* munmap(addr, len).  The address must be a multiple of the page size and the
\* length positive (EINVAL otherwise); the length need not be a multiple of the
\* page size: every page holding a part of the range is unmapped.  `refuse` is
\* the OS declining the call for a reason of its own (ENOMEM).
munmap(os, addr, len, refuse) ==
    IF len = 0 \/ addr % PageSize # 0 \/ refuse
    THEN [ret |-> -1, os |-> os]
    ELSE LET ps == PagesOf(addr, len)
         IN  [ret |-> 0,
              os  |-> [mapped |-> os.mapped \ ps,
                       mem    |-> [a \in DOMAIN os.mem |->
                                     IF PageOf(a) \in ps THEN 0 ELSE os.mem[a]]]]

\* The record of an OS call, kept in the operation's result.
Call(fn, addr, len, ret) == [fn |-> fn, addr |-> addr, len |-> len, ret |-> ret]

(***************************************************************************)
(* core::alloc::Layout as the allocator uses it.                           *)
(***************************************************************************)
\* Layout::align_to: the size is kept, the alignment raised; an error when the
\* size rounded up to the new alignment exceeds isize::MAX.
\* The mutant never reports the overflow.
align_to_U(size, align, to) ==
    [ok |-> TRUE, size |-> size, align |-> Max(align, to)]

\* The mutant rounds the size up as well.
align_to_P(size, align, to) ==
    [ok    |-> LayoutValid(size, Max(align, to)),
     size  |-> ((size + Max(align, to) - 1) \div Max(align, to)) * Max(align, to),
     align |-> Max(align, to)]

align_to(size, align, to) ==
    [ok    |-> LayoutValid(size, Max(align, to)),
     size  |-> size,
     align |-> Max(align, to)]

\* Layout::pad_to_align().size(): the size rounded up to the alignment.
pad_to_align_M(size, align) == size

pad_to_align_D(size, align) == (size \div align) * align

pad_to_align(size, align) == ((size + align - 1) \div align) * align

(***************************************************************************)
(* The allocator's operations, as functions of the OS state, the           *)
(* arguments and the OS's choices.  Each yields the outcome ("ok", "err"   *)
(* for AllocError, "panic"), the returned slice, the OS state it leaves    *)
(* and the OS calls it made.                                               *)
(***************************************************************************)
Outcome(res, ptr, len, os, calls) ==
    [res |-> res, ptr |-> ptr, len |-> len, os |-> os, calls |-> calls]

\* `layout.align() > page_size::get()`
align_rejected_M(align) == align > 2 * PageSize

align_rejected(align) == align > PageSize

allocate(os, size, align, place) ==
    IF align_rejected(align) THEN Outcome("err", 0, 0, os, <<>>)
    ELSE
      LET layout == align_to(size, align, PageSize) IN
      IF ~layout.ok THEN Outcome("err", 0, 0, os, <<>>)
      ELSE
        LET m == mmap(os, layout.size, place)
            c == <<Call("mmap", 0, layout.size, m.ret)>>
        IN  IF m.ret = MAP_FAILED THEN Outcome("err", 0, 0, os, c)
            ELSE Outcome("ok", m.ret, pad_to_align(layout.size, layout.align),
                         m.os, c)

\* The length deallocate hands to munmap.
\* The mutant hands over a page more.
deallocate_len_L(size) == size + PageSize

deallocate_len_M(size) == (size \div PageSize) * PageSize

deallocate_len(size) == size

\* The mutant goes on after a munmap that failed.
deallocate_I(os, ptr, size, refuse) ==
    LET u == munmap(os, ptr, deallocate_len(size), refuse)
    IN  Outcome("ok", 0, 0, u.os, <<Call("munmap", ptr, deallocate_len(size), u.ret)>>)

deallocate(os, ptr, size, refuse) ==
    LET u == munmap(os, ptr, deallocate_len(size), refuse)
        c == <<Call("munmap", ptr, deallocate_len(size), u.ret)>>
    IN  IF u.ret = -1 THEN Outcome("panic", 0, 0, os, c)
        ELSE Outcome("ok", 0, 0, u.os, c)

\* The mutant returns the requested size as the slice's length.
allocate_zeroed_M(os, size, align, place) ==
    LET a == allocate(os, size, align, place)
    IN  Outcome(a.res, a.ptr, IF a.res = "ok" THEN size ELSE 0, a.os, a.calls)

allocate_zeroed(os, size, align, place) == allocate(os, size, align, place)

\* ptr::copy_nonoverlapping(src, dst, count): count bytes from src to dst.
copy_nonoverlapping(os, src, dst, count) ==
    [mapped |-> os.mapped,
     mem    |-> [a \in DOMAIN os.mem |->
                   IF a >= dst /\ a < dst + count /\ (src + (a - dst)) \in DOMAIN os.mem
                   THEN os.mem[src + (a - dst)]
                   ELSE os.mem[a]]]

\* The number of bytes grow copies: `old_layout.size()`.
copy_len_M(old) == 0

copy_len_P(old) == pad_to_align(old.size, old.align)

copy_len(old) == old.size

\* `old_layout.pad_to_align() == new_layout.pad_to_align()`
same_padded_M(old, new) == old.size = new.size

same_padded(old, new) ==
    /\ pad_to_align(old.size, old.align) = pad_to_align(new.size, new.align)
    /\ old.align = new.align

\* The relocating path of grow: allocate, copy, deallocate the old block.
\* The mutant unmaps the old block before it knows the new one was obtained.
grow_relocate_M(os, ptr, old, new, place, refuse) ==
    LET d == deallocate(copy_nonoverlapping(os, ptr, ptr, 0), ptr, old.size, refuse)
        a == allocate(d.os, new.size, new.align, place)
    IN  IF a.res # "ok" THEN Outcome("err", 0, 0, a.os, d.calls \o a.calls)
        ELSE Outcome("ok", a.ptr, a.len, a.os, d.calls \o a.calls)

\* The mutant does not deallocate the old block.
grow_relocate_L(os, ptr, old, new, place, refuse) ==
    LET a == allocate(os, new.size, new.align, place) IN
    IF a.res # "ok" THEN Outcome("err", 0, 0, a.os, a.calls)
    ELSE Outcome("ok", a.ptr, a.len,
                 copy_nonoverlapping(a.os, ptr, a.ptr, copy_len(old)), a.calls)

grow_relocate(os, ptr, old, new, place, refuse) ==
    LET a == allocate(os, new.size, new.align, place) IN
    IF a.res # "ok" THEN Outcome("err", 0, 0, a.os, a.calls)
    ELSE
      LET copied == copy_nonoverlapping(a.os, ptr, a.ptr, copy_len(old))
          d == deallocate(copied, ptr, old.size, refuse)
      IN  IF d.res = "panic" THEN Outcome("panic", 0, 0, d.os, a.calls \o d.calls)
          ELSE Outcome("ok", a.ptr, a.len, d.os, a.calls \o d.calls)

grow(os, ptr, oldSize, oldAlign, newSize, newAlign, place, refuse) ==
    IF align_rejected(newAlign) THEN Outcome("err", 0, 0, os, <<>>)
    ELSE
      LET old == align_to(oldSize, oldAlign, PageSize)
          new == align_to(newSize, newAlign, PageSize)
      IN  IF ~old.ok \/ ~new.ok THEN Outcome("err", 0, 0, os, <<>>)
          ELSE IF same_padded(old, new)
          THEN Outcome("ok", ptr, pad_to_align(new.size, new.align), os, <<>>)
          ELSE grow_relocate(os, ptr, old, new, place, refuse)

grow_zeroed(os, ptr, oldSize, oldAlign, newSize, newAlign, place, refuse) ==
    grow(os, ptr, oldSize, oldAlign, newSize, newAlign, place, refuse)

\* `ptr.as_ptr().add(retained_area_size)`
truncated_area_ptr_M(ptr, retained) == ptr

truncated_area_ptr(ptr, retained) == ptr + retained

\* `new_layout.pad_to_align().size()`
retained_area_size_M(new) == new.size

retained_area_size(new) == pad_to_align(new.size, new.align)

shrink(os, ptr, oldSize, oldAlign, newSize, newAlign, refuse) ==
    IF align_rejected(newAlign) THEN Outcome("err", 0, 0, os, <<>>)
    ELSE
      LET old == align_to(oldSize, oldAlign, PageSize)
          new == align_to(newSize, newAlign, PageSize)
      IN  IF ~old.ok \/ ~new.ok THEN Outcome("err", 0, 0, os, <<>>)
          ELSE
            LET retained == retained_area_size(new)
                tptr == truncated_area_ptr(ptr, retained)
                tsize == pad_to_align(old.size, old.align) - retained
            IN  IF tsize > 0
                THEN LET u == munmap(os, tptr, tsize, refuse)
                         c == <<Call("munmap", tptr, tsize, u.ret)>>
                     IN  IF u.ret = -1 THEN Outcome("panic", 0, 0, os, c)
                         ELSE Outcome("ok", ptr, retained, u.os, c)
                ELSE Outcome("ok", ptr, retained, os, <<>>)

(***************************************************************************)
(* The callers.  A handle is a block a caller holds: its address, the      *)
(* length of the slice last returned for it, and the layout it was last    *)
(* returned for.  A caller passes, as the block's layout, any layout that  *)
(* fits it: the alignment it was returned for and a size from the          *)
(* requested size to the returned length.                                  *)
(***************************************************************************)
Handle(ptr, len, size, align) ==
    [ptr |-> ptr, len |-> len, size |-> size, align |-> align]

FitSizes(h) == h.size .. Max(h.size, h.len)

Places == {MAP_FAILED} \cup {p * PageSize : p \in Pages}

Os == [mapped |-> mapped, mem |-> mem]

\* The OS's choices are told apart only where they show: a placement is chosen
\* only for an mmap that is granted there, a refusal only for a munmap that
\* would have gone through.  (A placement on a mapped page is never granted.)
Effective(o, place, refuse) ==
    /\ place # MAP_FAILED => PageOf(place) \notin mapped
    /\ place # MAP_FAILED =>
          \E i \in DOMAIN o.calls :
              o.calls[i].fn = "mmap" /\ o.calls[i].ret = place
    /\ refuse =>
          \E i \in DOMAIN o.calls :
              /\ o.calls[i].fn = "munmap" /\ o.calls[i].ret = -1
              /\ o.calls[i].len # 0 /\ o.calls[i].addr % PageSize = 0

\* The record of an operation: what it was called with (for an operation on a
\* block: its address, the length of its slice and the layouts passed), what it
\* returned and the OS calls it made.
Last(op, ptr, hlen, oldSize, oldAlign, newSize, newAlign, o) ==
    [op |-> op, ptr |-> ptr, hlen |-> hlen,
     oldSize |-> oldSize, oldAlign |-> oldAlign,
     newSize |-> newSize, newAlign |-> newAlign,
     res |-> o.res, rptr |-> o.ptr, rlen |-> o.len, calls |-> o.calls]

\* No call is in progress and none has just returned: callers may call.
NoCall == Last("none", 0, 0, 0, 1, 0, 1, Outcome("ok", 0, 0, Os, <<>>))

Idle == last.op = "none"

Init ==
    /\ mapped = {}
    /\ mem = [a \in Addrs |-> 0]
    /\ handles = {}
    /\ last = NoCall
    /\ threads = <<>>

\* What an operation that yields a block leaves behind.
Created(op, l, o) ==
    /\ mapped' = o.os.mapped
    /\ mem' = o.os.mem
    /\ handles' = IF o.res = "ok"
                  THEN handles \cup {Handle(o.ptr, o.len, l.size, l.align)}
                  ELSE handles
    /\ last' = Last(op, 0, 0, 0, 1, l.size, l.align, o)
    /\ UNCHANGED threads

\* What an operation on the block of handle h leaves behind: on success the
\* old handle is consumed and the returned one held; on AllocError the old
\* handle is kept.
Replaced(op, h, oldSize, l, o) ==
    /\ mapped' = o.os.mapped
    /\ mem' = o.os.mem
    /\ handles' = IF o.res = "ok"
                  THEN (handles \ {h}) \cup {Handle(o.ptr, o.len, l.size, l.align)}
                  ELSE handles
    /\ last' = Last(op, h.ptr, h.len, oldSize, h.align, l.size, l.align, o)
    /\ UNCHANGED threads

Allocate ==
    /\ Idle
    /\ Cardinality(handles) < MaxHandles
    /\ \E l \in Layouts, place \in Places :
          LET o == allocate(Os, l.size, l.align, place) IN
          Effective(o, place, FALSE) /\ Created("allocate", l, o)

AllocateZeroed ==
    /\ Idle
    /\ Cardinality(handles) < MaxHandles
    /\ \E l \in Layouts, place \in Places :
          LET o == allocate_zeroed(Os, l.size, l.align, place) IN
          Effective(o, place, FALSE) /\ Created("allocate_zeroed", l, o)

Deallocate ==
    /\ Idle
    /\ \E h \in handles : \E size \in FitSizes(h), refuse \in BOOLEAN :
          LET o == deallocate(Os, h.ptr, size, refuse) IN
          /\ Effective(o, MAP_FAILED, refuse)
          /\ mapped' = o.os.mapped
          /\ mem' = o.os.mem
          /\ handles' = handles \ {h}
          /\ last' = Last("deallocate", h.ptr, h.len, size, h.align, size, h.align, o)
          /\ UNCHANGED threads

\* (grow calls munmap only after an mmap that was granted: a refusal is a
\* choice only then.)
Grow ==
    /\ Idle
    /\ \E h \in handles : \E oldSize \in FitSizes(h), l \in Layouts,
                              place \in Places, refuse \in BOOLEAN :
          LET o == grow(Os, h.ptr, oldSize, h.align, l.size, l.align, place, refuse)
          IN  /\ l.size >= oldSize
              /\ refuse => place # MAP_FAILED
              /\ Effective(o, place, refuse)
              /\ Replaced("grow", h, oldSize, l, o)

GrowZeroed ==
    /\ Idle
    /\ \E h \in handles : \E oldSize \in FitSizes(h), l \in Layouts,
                              place \in Places, refuse \in BOOLEAN :
          LET o == grow_zeroed(Os, h.ptr, oldSize, h.align, l.size, l.align,
                               place, refuse)
          IN  /\ l.size >= oldSize
              /\ refuse => place # MAP_FAILED
              /\ Effective(o, place, refuse)
              /\ Replaced("grow_zeroed", h, oldSize, l, o)

Shrink ==
    /\ Idle
    /\ \E h \in handles : \E oldSize \in FitSizes(h), l \in Layouts, refuse \in BOOLEAN :
          LET o == shrink(Os, h.ptr, oldSize, h.align, l.size, l.align, refuse)
          IN  /\ l.size <= oldSize
              /\ Effective(o, MAP_FAILED, refuse)
              /\ Replaced("shrink", h, oldSize, l, o)

\* A caller writes a byte of a block it holds, anywhere in the returned slice.
Write ==
    /\ Idle
    /\ \E h \in handles : \E off \in 0 .. (h.len - 1), v \in Bytes :
          /\ mem' = [mem EXCEPT ![h.ptr + off] = v]
          /\ UNCHANGED <<mapped, handles, last, threads>>

\* The caller takes the result of the call that returned and goes on.  After a
\* panic the process is gone: nothing goes on.
Resume ==
    /\ ~Idle
    /\ last.res # "panic"
    /\ last' = NoCall
    /\ UNCHANGED <<mapped, mem, handles, threads>>

Next ==
    \/ Allocate
    \/ AllocateZeroed
    \/ Deallocate
    \/ Grow
    \/ GrowZeroed
    \/ Shrink
    \/ Write
    \/ Resume

Spec == Init /\ [][Next]_vars

(***************************************************************************)
(* Several threads.  The allocator has no state of its own: a thread that  *)
(* calls it runs its code on the thread's own block, and the threads meet  *)
(* only in the OS.  allocate, deallocate and shrink make at most one OS    *)
(* call and are one step; a relocating grow is three: mmap of the new      *)
(* region, the copy, munmap of the old.  A thread that panics stops; the   *)
(* others go on.  grow_zeroed is grow, so the grow steps stand for both.   *)
(***************************************************************************)
\* Two threads: what one thread's operation does to another thread's block
\* is a matter of a pair.
Threads == {1, 2}

\* The address space the threads share: a page more than a single caller's.
ConcPages == 1 .. (NumPages + 1)
ConcAddrs == PageSize .. ((NumPages + 2) * PageSize - 1)
ConcPlaces == {MAP_FAILED} \cup {p * PageSize : p \in ConcPages}

\* The layouts the threads pass: every size but 0, the alignments 1 and the
\* one the allocator rejects.
ConcLayouts == {l \in Layouts : l.size > 0 /\ l.align # PageSize}

\* A thread: where it is ("idle": it holds no block; "held": it holds the
\* block ptr, len, last returned for the layout size, align; "grow": it is in
\* the relocating path of grow with the block ptr, len passed as of the layout
\* size, align, the steps in `did` done, the new region nptr, nlen obtained for
\* nsize, nalign; "panicked").
Thread(pc, ptr, len, size, align) ==
    [pc |-> pc, ptr |-> ptr, len |-> len, size |-> size, align |-> align,
     nptr |-> 0, nlen |-> 0, nsize |-> 0, nalign |-> 1, did |-> <<>>]

\* The record of a step: the thread, the step and its outcome.
Acted(t, op, res) == [t |-> t, op |-> op, res |-> res]

InitConc ==
    /\ mapped = {}
    /\ mem = [a \in ConcAddrs |-> 0]
    /\ handles = {}
    /\ last = NoCall
    /\ threads = [t \in Threads |-> Thread("idle", 0, 0, 0, 1)]

\* The order of the relocating path: what follows each step.
\* The mutant unmaps the old region before it copies.
grow_relocate_next_M(step) ==
    CASE step = "mmap" -> "munmap"
      [] step = "munmap" -> "copy"
      [] step = "copy" -> "done"

grow_relocate_next(step) ==
    CASE step = "mmap" -> "copy"
      [] step = "copy" -> "munmap"
      [] step = "munmap" -> "done"

\* The step a thread in the relocating path takes next.
NextStep(th) == grow_relocate_next(th.did[Len(th.did)])

\* The thread after a step of the relocating path: on to the next step, or,
\* the path done, holding the new block.
Stepped(th, step) ==
    IF grow_relocate_next(step) = "done"
    THEN Thread("held", th.nptr, th.nlen, th.nsize, th.nalign)
    ELSE [th EXCEPT !.did = Append(@, step)]

TAllocate(t) ==
    /\ threads[t].pc = "idle"
    /\ \E l \in ConcLayouts, place \in ConcPlaces :
          LET o == allocate(Os, l.size, l.align, place) IN
          /\ Effective(o, place, FALSE)
          /\ mapped' = o.os.mapped
          /\ mem' = o.os.mem
          /\ threads' = [threads EXCEPT ![t] =
                           IF o.res = "ok"
                           THEN Thread("held", o.ptr, o.len, l.size, l.align)
                           ELSE @]
          /\ last' = Acted(t, "allocate", o.res)
          /\ UNCHANGED handles

TDeallocate(t) ==
    /\ threads[t].pc = "held"
    /\ \E size \in FitSizes(threads[t]), refuse \in BOOLEAN :
          LET o == deallocate(Os, threads[t].ptr, size, refuse) IN
          /\ Effective(o, MAP_FAILED, refuse)
          /\ mapped' = o.os.mapped
          /\ mem' = o.os.mem
          /\ threads' = [threads EXCEPT ![t] =
                           IF o.res = "panic"
                           THEN Thread("panicked", 0, 0, 0, 1)
                           ELSE Thread("idle", 0, 0, 0, 1)]
          /\ last' = Acted(t, "deallocate", o.res)
          /\ UNCHANGED handles

TShrink(t) ==
    /\ threads[t].pc = "held"
    /\ \E oldSize \in FitSizes(threads[t]), l \in ConcLayouts, refuse \in BOOLEAN :
          LET o == shrink(Os, threads[t].ptr, oldSize, threads[t].align,
                          l.size, l.align, refuse)
          IN  /\ l.size <= oldSize
              /\ Effective(o, MAP_FAILED, refuse)
              /\ mapped' = o.os.mapped
              /\ mem' = o.os.mem
              /\ threads' = [threads EXCEPT ![t] =
                               CASE o.res = "ok" ->
                                      Thread("held", o.ptr, o.len, l.size, l.align)
                                 [] o.res = "err" -> @
                                 [] o.res = "panic" ->
                                      Thread("panicked", 0, 0, 0, 1)]
              /\ last' = Acted(t, "shrink", o.res)
              /\ UNCHANGED handles

\* The call of grow, up to and with its mmap: it returns AllocError, or the
\* block in place, or it has the new region and is in the relocating path.
TGrow(t) ==
    /\ threads[t].pc = "held"
    /\ \E oldSize \in FitSizes(threads[t]), l \in ConcLayouts, place \in ConcPlaces :
          LET th == threads[t]
              old == align_to(oldSize, th.align, PageSize)
              new == align_to(l.size, l.align, PageSize)
              a == allocate(Os, new.size, new.align, place)
          IN  /\ l.size >= oldSize
              /\ IF align_rejected(l.align) \/ ~old.ok \/ ~new.ok
                 THEN /\ place = MAP_FAILED
                      /\ UNCHANGED <<mapped, mem, threads>>
                      /\ last' = Acted(t, "grow", "err")
                 ELSE IF same_padded(old, new)
                 THEN /\ place = MAP_FAILED
                      /\ UNCHANGED <<mapped, mem>>
                      /\ threads' = [threads EXCEPT ![t] =
                                       Thread("held", th.ptr,
                                              pad_to_align(new.size, new.align),
                                              l.size, l.align)]
                      /\ last' = Acted(t, "grow", "ok")
                 ELSE /\ Effective(a, place, FALSE)
                      /\ mapped' = a.os.mapped
                      /\ mem' = a.os.mem
                      /\ threads' = [threads EXCEPT ![t] =
                                       IF a.res = "ok"
                                       THEN [th EXCEPT !.pc = "grow",
                                                       !.size = old.size,
                                                       !.nptr = a.ptr,
                                                       !.nlen = a.len,
                                                       !.nsize = l.size,
                                                       !.nalign = l.align,
                                                       !.did = <<"mmap">>]
                                       ELSE @]
                      /\ last' = Acted(t, "grow", IF a.res = "ok" THEN "relocating" ELSE "err")
              /\ UNCHANGED handles

\* The copy of the relocating path.
TGrowCopy(t) ==
    /\ threads[t].pc = "grow"
    /\ NextStep(threads[t]) = "copy"
    /\ LET th == threads[t]
           copied == copy_nonoverlapping(Os, th.ptr, th.nptr,
                                         copy_len([size |-> th.size]))
       IN  /\ mapped' = copied.mapped
           /\ mem' = copied.mem
           /\ threads' = [threads EXCEPT ![t] = Stepped(th, "copy")]
           /\ last' = Acted(t, "grow_copy", "ok")
           /\ UNCHANGED handles

\* The deallocate of the old block that ends the relocating path.
TGrowUnmap(t) ==
    /\ threads[t].pc = "grow"
    /\ NextStep(threads[t]) = "munmap"
    /\ \E refuse \in BOOLEAN :
          LET th == threads[t]
              d == deallocate(Os, th.ptr, th.size, refuse)
          IN  /\ Effective(d, MAP_FAILED, refuse)
              /\ mapped' = d.os.mapped
              /\ mem' = d.os.mem
              /\ threads' = [threads EXCEPT ![t] =
                               IF d.res = "panic"
                               THEN Thread("panicked", 0, 0, 0, 1)
                               ELSE Stepped(th, "munmap")]
              /\ last' = Acted(t, "grow_munmap", d.res)
              /\ UNCHANGED handles

\* A thread writes the first byte of the block it holds.
TWrite(t) ==
    /\ threads[t].pc = "held"
    /\ threads[t].len > 0
    /\ \E v \in Bytes :
          /\ mem' = [mem EXCEPT ![threads[t].ptr] = v]
          /\ last' = Acted(t, "write", "ok")
          /\ UNCHANGED <<mapped, handles, threads>>

NextConc ==
    \E t \in Threads :
        \/ TAllocate(t)
        \/ TDeallocate(t)
        \/ TShrink(t)
        \/ TGrow(t)
        \/ TGrowCopy(t)
        \/ TGrowUnmap(t)
        \/ TWrite(t)

SpecConc == InitConc /\ [][NextConc]_vars

(***************************************************************************)
(* The properties.                                                         *)
(***************************************************************************)
\* The padded size of the specification: ceil(size / P) * P.
Padded(size) == ((size + PageSize - 1) \div PageSize) * PageSize

\* The step is a call of op: last' records it, and the unprimed variables are
\* the state it was called in.
Called(op) == last.op = "none" /\ last'.op = op

\* The OS granted the mmap the operation asked for.
Granted(r) ==
    \E i \in DOMAIN r.calls : r.calls[i].fn = "mmap" /\ r.calls[i].ret # MAP_FAILED

\* The OS refused the mmap the operation asked for.
MmapFailed(r) ==
    \E i \in DOMAIN r.calls : r.calls[i].fn = "mmap" /\ r.calls[i].ret = MAP_FAILED

\* C1: allocate of a layout with size > 0 and alignment <= P, when the OS
\* grants the mapping, returns a slice of length ceil(size / P) * P at a base
\* address that is a multiple of P, and the whole slice is mapped.
C1_AllocateLength ==
    (/\ last.op = "allocate"
     /\ last.newSize > 0
     /\ last.newAlign <= PageSize
     /\ Granted(last))
    => /\ last.res = "ok"
       /\ last.rlen = Padded(last.newSize)
       /\ last.rptr % PageSize = 0
       /\ last.rptr # 0
       /\ PagesOf(last.rptr, last.rlen) \subseteq mapped

\* allocate(size P + 1) returned a slice of two pages.
C1_Witness ==
    /\ last.op = "allocate"
    /\ last.res = "ok"
    /\ last.newSize = PageSize + 1
    /\ last.rlen = 2 * PageSize

\* C2: allocate, grow and shrink return AllocError for every layout (new_layout
\* in grow and shrink) whose alignment is greater than the page size, whatever
\* the size, and ask nothing of the OS.
C2_AlignRejected ==
    (/\ last.op \in {"allocate", "grow", "shrink"}
     /\ last.newAlign > PageSize)
    => /\ last.res = "err"
       /\ last.calls = <<>>

\* grow was refused a new layout of alignment 2P on a block of one page.
C2_Witness ==
    /\ last.op = "grow"
    /\ last.newAlign > PageSize
    /\ last.hlen = PageSize
    /\ last.newSize > PageSize
    /\ last.res = "err"

\* C3: a grow whose old and new padded sizes differ, granted its new mapping,
\* returns a slice at another base address, of the new padded size, whose bytes
\* below old_layout.size are those of the old block, and no page of the old
\* block is mapped when it returns.
C3_GrowRelocates ==
    [][(/\ Called("grow")
        /\ last'.newAlign <= PageSize
        /\ Padded(last'.oldSize) # Padded(last'.newSize)
        /\ Granted(last')
        /\ last'.res = "ok")
       => /\ last'.rptr # last'.ptr
          /\ last'.rlen = Padded(last'.newSize)
          /\ \A off \in 0 .. (last'.oldSize - 1) :
                mem'[last'.rptr + off] = mem[last'.ptr + off]
          /\ PagesOf(last'.ptr, last'.hlen) \cap mapped' = {}
          /\ PagesOf(last'.rptr, last'.rlen) \subseteq mapped']_vars

\* A grow from one page to two returned, and a byte the caller had written
\* is in the new block.
C3_Witness ==
    /\ last.op = "grow"
    /\ last.res = "ok"
    /\ last.hlen = PageSize
    /\ last.rlen = 2 * PageSize
    /\ last.rptr # last.ptr
    /\ last.oldSize = 1
    /\ mem[last.rptr] = 42

\* C4: a grow whose old and new padded sizes are equal returns the same base
\* address and the same length, makes no OS call, and leaves the mapped pages
\* and every byte as they were.
C4_GrowInPlace ==
    [][(/\ Called("grow")
        /\ last'.newAlign <= PageSize
        /\ Padded(last'.oldSize) = Padded(last'.newSize))
       => /\ last'.res = "ok"
          /\ last'.rptr = last'.ptr
          /\ last'.rlen = last'.hlen
          /\ last'.calls = <<>>
          /\ mapped' = mapped
          /\ mem' = mem]_vars

\* A grow from size 1 to size P returned in place, on a block holding a byte
\* the caller had written.
C4_Witness ==
    /\ last.op = "grow"
    /\ last.res = "ok"
    /\ last.oldSize = 1
    /\ last.newSize = PageSize
    /\ last.rptr = last.ptr
    /\ mem[last.ptr] = 42

\* C5: a grow that returns AllocError has changed nothing: the mapped pages and
\* every byte are as before, the old block is still mapped whole, and no
\* munmap was called.
C5_GrowFailureKeepsBlock ==
    [][(/\ Called("grow")
        /\ last'.res = "err")
       => /\ mapped' = mapped
          /\ mem' = mem
          /\ PagesOf(last'.ptr, last'.hlen) \subseteq mapped'
          /\ \A i \in DOMAIN last'.calls : last'.calls[i].fn # "munmap"]_vars

\* A grow of a one-page block holding a written byte failed because the OS
\* refused the new mapping.
C5_Witness ==
    /\ last.op = "grow"
    /\ last.res = "err"
    /\ MmapFailed(last)
    /\ last.hlen = PageSize
    /\ mem[last.ptr] = 42
    /\ PagesOf(last.ptr, last.hlen) \subseteq mapped

\* The pages of the tail a shrink cuts off a block: those of the byte range
\* [new padded size, old padded size) of the block.
TailPages(r) ==
    PagesOf(r.ptr + Padded(r.newSize), Padded(r.oldSize) - Padded(r.newSize))

\* C6: a shrink to a smaller padded size either panics on a munmap the OS
\* refused, having changed nothing, or returns the same base address with the
\* new padded length, having made one munmap call, of exactly the byte range
\* [new padded size, old padded size) of the block: those pages and no others
\* are unmapped, and the retained head is mapped with every byte as it was.
C6_ShrinkTruncates ==
    [][(/\ Called("shrink")
        /\ last'.newAlign <= PageSize
        /\ Padded(last'.newSize) < Padded(last'.oldSize))
       => /\ last'.res \in {"ok", "panic"}
          /\ last'.calls =
               <<Call("munmap", last'.ptr + Padded(last'.newSize),
                      Padded(last'.oldSize) - Padded(last'.newSize),
                      IF last'.res = "ok" THEN 0 ELSE -1)>>
          /\ last'.res = "panic" => mapped' = mapped /\ mem' = mem
          /\ last'.res = "ok" =>
               /\ last'.rptr = last'.ptr
               /\ last'.rlen = Padded(last'.newSize)
               /\ TailPages(last') # {}
               /\ TailPages(last') \subseteq mapped
               /\ mapped' = mapped \ TailPages(last')
               /\ PagesOf(last'.rptr, last'.rlen) \subseteq mapped'
               /\ \A a \in Addrs :
                     PageOf(a) \notin TailPages(last') => mem'[a] = mem[a]]_vars

\* A shrink from two pages to one returned, and the byte the caller had written
\* in the first page is still there.
C6_Witness ==
    /\ last.op = "shrink"
    /\ last.res = "ok"
    /\ last.hlen = 2 * PageSize
    /\ last.rlen = PageSize
    /\ mem[last.rptr] = 42
    /\ PageOf(last.rptr) \in mapped
    /\ PageOf(last.rptr) + 1 \notin mapped

\* C7: a shrink whose old and new padded sizes are equal returns the same base
\* address and the unchanged length, makes no OS call, and leaves the mapped
\* pages and every byte as they were.
C7_ShrinkInPlace ==
    [][(/\ Called("shrink")
        /\ last'.newAlign <= PageSize
        /\ Padded(last'.newSize) = Padded(last'.oldSize))
       => /\ last'.res = "ok"
          /\ last'.rptr = last'.ptr
          /\ last'.rlen = last'.hlen
          /\ last'.calls = <<>>
          /\ mapped' = mapped
          /\ mem' = mem
          /\ PagesOf(last'.rptr, last'.rlen) \subseteq mapped']_vars

\* A shrink from size 2P to size P + 1 returned the two pages it was given,
\* the last byte holding what the caller had written.
C7_Witness ==
    /\ last.op = "shrink"
    /\ last.res = "ok"
    /\ last.oldSize = 2 * PageSize
    /\ last.newSize = PageSize + 1
    /\ last.rlen = 2 * PageSize
    /\ mem[last.rptr + 2 * PageSize - 1] = 42

\* C8 as stated: after every grow_zeroed that returns a slice, in place or
\* relocated, every byte at an offset in [old_layout.size, new_layout.size) is
\* zero and every byte below old_layout.size has its old value.
C8_GrowZeroedTailZero ==
    [][(/\ Called("grow_zeroed")
        /\ last'.res = "ok")
       => /\ \A off \in last'.oldSize .. (last'.newSize - 1) :
                mem'[last'.rptr + off] = 0
          /\ \A off \in 0 .. (last'.oldSize - 1) :
                mem'[last'.rptr + off] = mem[last'.ptr + off]]_vars

\* C8 amended: after every grow_zeroed that returns a slice, every byte below
\* old_layout.size has its old value; when the block was relocated, every byte
\* from old_layout.size to the end of the returned slice is zero; when it was
\* grown in place, every byte of the block, those in
\* [old_layout.size, new_layout.size) too, has the value it had before the
\* call, which is zero only where the caller had not written.
C8_GrowZeroedAmended ==
    [][(/\ Called("grow_zeroed")
        /\ last'.res = "ok")
       => /\ \A off \in 0 .. (last'.oldSize - 1) :
                mem'[last'.rptr + off] = mem[last'.ptr + off]
          /\ last'.rptr # last'.ptr =>
                \A off \in last'.oldSize .. (last'.rlen - 1) :
                    mem'[last'.rptr + off] = 0
          /\ last'.rptr = last'.ptr =>
                /\ last'.rlen = last'.hlen
                /\ \A off \in 0 .. (last'.rlen - 1) :
                      mem'[last'.rptr + off] = mem[last'.ptr + off]]_vars

\* A grow_zeroed from size 1 to size P returned in place, and the byte at
\* offset 1, which the caller had written, is not zero.
C8_Witness ==
    /\ last.op = "grow_zeroed"
    /\ last.res = "ok"
    /\ last.oldSize = 1
    /\ last.newSize = PageSize
    /\ last.rptr = last.ptr
    /\ mem[last.rptr + 1] = 42

\* C9: a deallocate that returns, called with any layout that fits the block,
\* has made one munmap call at the block's address and leaves no page of
\* [base, base + length) mapped.
C9_DeallocateUnmapsAll ==
    (/\ last.op = "deallocate"
     /\ last.res = "ok")
    => /\ Len(last.calls) = 1
       /\ last.calls[1].fn = "munmap"
       /\ last.calls[1].addr = last.ptr
       /\ PagesOf(last.ptr, last.hlen) \cap mapped = {}

\* A deallocate of a two-page block with a layout of size P + 1 returned.
C9_Witness ==
    /\ last.op = "deallocate"
    /\ last.res = "ok"
    /\ last.hlen = 2 * PageSize
    /\ last.oldSize = PageSize + 1
    /\ mapped = {}

\* The OS refused a munmap that was well formed: a positive length at a
\* page-aligned address.
Refused(r) ==
    \E i \in DOMAIN r.calls :
        /\ r.calls[i].fn = "munmap" /\ r.calls[i].ret = -1
        /\ r.calls[i].len > 0 /\ r.calls[i].addr % PageSize = 0

\* C10: no deallocate, grow, grow_zeroed or shrink of a handle the allocator
\* returned, called with the handle's layout, ends in the fatal fault, unless
\* the OS refuses a well-formed munmap.
C10_NoFault ==
    last.res = "panic" => Refused(last)

\* A deallocate panicked on a munmap of length 0: the block had been shrunk to
\* size 0.
C10_Witness ==
    /\ last.op = "deallocate"
    /\ last.res = "panic"
    /\ last.hlen = 0
    /\ last.calls = <<Call("munmap", last.ptr, 0, -1)>>

\* C11: every slice an operation returns, and every handle a caller holds,
\* has a base address that is a multiple of the page size, a length that is a
\* multiple of the page size, and a length no smaller than the size of the
\* layout it was returned for.
C11_MappingShape ==
    /\ \A h \in handles :
          /\ h.ptr % PageSize = 0
          /\ h.len % PageSize = 0
          /\ h.len >= h.size
    /\ (/\ last.op \in {"allocate", "allocate_zeroed", "grow", "grow_zeroed", "shrink"}
        /\ last.res = "ok")
       => /\ last.rptr % PageSize = 0
          /\ last.rlen % PageSize = 0
          /\ last.rlen >= last.newSize

\* A shrink from two pages to size 1 returned one page, which the caller holds.
C11_Witness ==
    /\ last.op = "shrink"
    /\ last.res = "ok"
    /\ last.hlen = 2 * PageSize
    /\ last.newSize = 1
    /\ Handle(last.rptr, PageSize, 1, last.newAlign) \in handles

C14_ZeroedSameAsAllocate ==
    [][/\ Called("allocate_zeroed") =>
             \E place \in Places :
                 LET o == allocate(Os, last'.newSize, last'.newAlign, place)
                 IN  /\ last'.res = o.res
                     /\ last'.rptr = o.ptr
                     /\ last'.rlen = o.len
                     /\ last'.calls = o.calls
                     /\ mapped' = o.os.mapped
                     /\ mem' = o.os.mem
       /\ ((Called("allocate") \/ Called("allocate_zeroed")) /\ last'.res = "ok") =>
             \A off \in 0 .. (last'.rlen - 1) :
                 /\ PageOf(last'.rptr + off) \in mapped'
                 /\ mem'[last'.rptr + off] = 0]_vars

\* allocate_zeroed(size P + 1) returned two pages.
C14_Witness ==
    /\ last.op = "allocate_zeroed"
    /\ last.res = "ok"
    /\ last.newSize = PageSize + 1
    /\ last.rlen = 2 * PageSize
    /\ \A off \in 0 .. (2 * PageSize - 1) : mem[last.rptr + off] = 0

\* The layout is one allocate accepts: its alignment is at most the page size
\* and its size can be rounded up to the page size.
Accepted(r) == r.newAlign <= PageSize /\ r.newSize + (PageSize - 1) <= IsizeMax

\* C15 as stated: the length allocate passes to mmap is the padded size
\* ceil(size / P) * P, the length of the slice it returns.
C15_MmapLenPadded ==
    (last.op = "allocate" /\ Accepted(last))
    => /\ Len(last.calls) = 1
       /\ last.calls[1].fn = "mmap"
       /\ last.calls[1].len = Padded(last.newSize)
       /\ last.res = "ok" => last.calls[1].len = last.rlen

\* C15 amended: the length allocate passes to mmap is the size of the layout,
\* not rounded up; the OS maps every page that holds a part of it, so that the
\* pages the call maps are exactly those of the padded size, which is the
\* length of the slice returned.
C15_MmapLenRequested ==
    [][(Called("allocate") /\ Accepted(last'))
       => /\ Len(last'.calls) = 1
          /\ last'.calls[1].fn = "mmap"
          /\ last'.calls[1].len = last'.newSize
          /\ last'.res = "ok" =>
                /\ last'.rlen = Padded(last'.newSize)
                /\ mapped' \ mapped = PagesOf(last'.rptr, last'.rlen)
                /\ PagesOf(last'.rptr, last'.rlen) \cap mapped = {}
          /\ last'.res = "err" => mapped' = mapped]_vars

\* allocate(size P + 1) asked mmap for P + 1 bytes and returned 2P.
C15_Witness ==
    /\ last.op = "allocate"
    /\ last.res = "ok"
    /\ last.newSize = PageSize + 1
    /\ last.calls = <<Call("mmap", 0, PageSize + 1, last.rptr)>>
    /\ last.rlen = 2 * PageSize

\* C17: in every state in which no operation has panicked, the pages mapped
\* are exactly those of the slices of the handles callers hold, [base, base +
\* length) of each, and the slices of two handles share no page.
C17_MappedIsHeld ==
    last.res # "panic" =>
        /\ mapped = UNION {PagesOf(h.ptr, h.len) : h \in handles}
        /\ \A h1, h2 \in handles :
              h1 # h2 => PagesOf(h1.ptr, h1.len) \cap PagesOf(h2.ptr, h2.len) = {}

\* A relocating grow returned two pages at a new address; they are the only
\* pages mapped and the caller holds them.
C17_Witness ==
    /\ last.op = "grow"
    /\ last.res = "ok"
    /\ last.rptr # last.ptr
    /\ last.hlen = PageSize
    /\ last.rlen = 2 * PageSize
    /\ mapped = PagesOf(last.rptr, last.rlen)
    /\ \E h \in handles : h.ptr = last.rptr /\ h.len = last.rlen

\* C18: allocate, grow and shrink (and the zeroed variants) return AllocError,
\* with no OS call, for a layout whose size rounded up to the page size exceeds
\* the largest size there is; no length they pass to the OS or return lies
\* outside 0 .. the largest size; a returned length is the padded size and at
\* least the requested size; and the length a shrink cuts off is the old
\* padded size minus the new one, which is positive when it calls munmap and
\* never negative.
C18_NoWrap ==
    last.op \in {"allocate", "allocate_zeroed", "grow", "grow_zeroed", "shrink"} =>
        /\ Padded(last.newSize) > IsizeMax =>
              last.res = "err" /\ last.calls = <<>>
        /\ \A i \in DOMAIN last.calls : last.calls[i].len \in 0 .. IsizeMax
        /\ last.rlen \in 0 .. IsizeMax
        /\ last.res = "ok" =>
              /\ last.rlen = Padded(last.newSize)
              /\ last.rlen >= last.newSize
        /\ (last.op = "shrink" /\ last.res # "err") =>
              /\ Padded(last.oldSize) - Padded(last.newSize) >= 0
              /\ \A i \in DOMAIN last.calls :
                    /\ last.calls[i].len = Padded(last.oldSize) - Padded(last.newSize)
                    /\ last.calls[i].len > 0

\* A grow of a one-page block to the largest size there is returned AllocError
\* without an OS call.
C18_Witness ==
    /\ last.op = "grow"
    /\ last.newSize = IsizeMax
    /\ last.newAlign = 1
    /\ last.hlen = PageSize
    /\ last.res = "err"
    /\ last.calls = <<>>
    /\ Padded(last.newSize) > IsizeMax

(***************************************************************************)
(* The properties of the threads.                                          *)
(***************************************************************************)
\* The regions a thread's block or blocks occupy: the block it holds, or, in
\* the relocating path, the old block until its munmap and the new region.
LiveBlocks(th) ==
    CASE th.pc = "held" -> {[ptr |-> th.ptr, len |-> th.len]}
      [] th.pc = "grow" ->
            {[ptr |-> th.nptr, len |-> th.nlen]} \cup
            (IF \E i \in DOMAIN th.did : th.did[i] = "munmap"
             THEN {}
             ELSE {[ptr |-> th.ptr, len |-> th.len]})
      [] OTHER -> {}

\* Every live region is mapped, and no two of them share a page.
LiveDisjoint ==
    \A t, u \in Threads :
        \A b \in LiveBlocks(threads[t]), c \in LiveBlocks(threads[u]) :
            /\ PagesOf(b.ptr, b.len) \subseteq mapped
            /\ (t # u \/ b # c) =>
                  PagesOf(b.ptr, b.len) \cap PagesOf(c.ptr, c.len) = {}

\* C12: with several threads each running allocate, grow (grow_zeroed),
\* shrink and deallocate on its own block, every OS step of every operation
\* interleaved with the others' (the mmap, the copy and the munmap of a
\* relocating grow among them), the live regions stay mapped and pairwise
\* disjoint; a step of one thread leaves every other thread's regions mapped,
\* in place and with their contents; and a thread's own block stays mapped
\* through its writes, its allocate, its copy and every call that returns
\* AllocError.
C12_ThreadsDoNotInterfere ==
    [][/\ LiveDisjoint'
       /\ \A u \in Threads \ {last'.t} :
             /\ threads'[u] = threads[u]
             /\ \A b \in LiveBlocks(threads[u]) :
                   /\ PagesOf(b.ptr, b.len) \subseteq mapped'
                   /\ \A a \in b.ptr .. (b.ptr + b.len - 1) : mem'[a] = mem[a]
       /\ (last'.op \in {"allocate", "write", "grow_copy"} \/ last'.res = "err") =>
             \A b \in LiveBlocks(threads[last'.t]) :
                 PagesOf(b.ptr, b.len) \subseteq mapped']_vars

\* Thread 2 has just written to its block while thread 1 is between the copy
\* and the munmap of a relocating grow.
C12_Witness ==
    /\ threads[1].pc = "grow"
    /\ threads[1].did = <<"mmap", "copy">>
    /\ threads[2].pc = "held"
    /\ last = Acted(2, "write", "ok")
    /\ mem[threads[2].ptr] = 42

\* C16: a relocating grow maps the new region, then copies old_layout.size
\* bytes, then unmaps the old region.  The copy comes after the mmap only and
\* the munmap after the copy only; the old region is unmapped by no other step
\* of grow, and not by a grow whose mmap failed, which changes nothing; and
\* while a thread is between the mmap and the munmap the old and the new
\* region are both mapped and share no page.
C16_RelocateOrder ==
    [][LET t == last'.t
           th == threads[t]
       IN  /\ \A u \in Threads :
                 threads'[u].pc = "grow" =>
                     /\ threads'[u].did \in {<<"mmap">>, <<"mmap", "copy">>}
                     /\ PagesOf(threads'[u].ptr, threads'[u].len) \subseteq mapped'
                     /\ PagesOf(threads'[u].nptr, threads'[u].nlen) \subseteq mapped'
                     /\ PagesOf(threads'[u].ptr, threads'[u].len)
                          \cap PagesOf(threads'[u].nptr, threads'[u].nlen) = {}
           /\ (last'.op = "grow" /\ last'.res = "relocating") =>
                 /\ th.pc = "held"
                 /\ threads'[t].did = <<"mmap">>
                 /\ mapped' \ mapped = PagesOf(threads'[t].nptr, threads'[t].nlen)
                 /\ mapped \subseteq mapped'
           /\ (last'.op = "grow" /\ last'.res = "err") =>
                 /\ mapped' = mapped
                 /\ mem' = mem
                 /\ threads' = threads
           /\ last'.op = "grow_copy" =>
                 /\ th.did = <<"mmap">>
                 /\ mapped' = mapped
                 /\ \A off \in 0 .. (th.size - 1) :
                       mem'[th.nptr + off] = mem[th.ptr + off]
           /\ last'.op = "grow_munmap" =>
                 /\ th.did = <<"mmap", "copy">>
                 /\ \A off \in 0 .. (th.size - 1) :
                       mem[th.nptr + off] = mem[th.ptr + off]
                 /\ last'.res = "ok" =>
                       /\ mapped \ mapped' = PagesOf(th.ptr, th.len)
                       /\ threads'[t] = Thread("held", th.nptr, th.nlen,
                                               th.nsize, th.nalign)
           /\ (last'.op \in {"grow", "grow_copy"} /\ th.pc \in {"held", "grow"}) =>
                 PagesOf(th.ptr, th.len) \subseteq mapped']_vars

\* A relocating grow has ended with its munmap, and the byte the thread had
\* written to the old block is in the new one.
C16_Witness ==
    /\ last.op = "grow_munmap"
    /\ last.res = "ok"
    /\ threads[last.t].pc = "held"
    /\ threads[last.t].len = 2 * PageSize
    /\ mem[threads[last.t].ptr] = 42

====
